---- MODULE Spec2Model ----
(***************************************************************************)
(* A model of find-old-files (src/src/lib.rs, src/src/main.rs):            *)
(*   get_directory_entries  the directory walker,                          *)
(*   get_access_time        the access-time query of one path,             *)
(*   get_access_times       the driver that walks and prints.              *)
(* The file system is part of the state.  Every file-system call of the    *)
(* code (read_dir, the listing's next item, file_type, is_file, metadata)  *)
(* is one step, so that another process can act between two of them.       *)
(***************************************************************************)
EXTENDS Integers, Sequences, FiniteSets, TLC

(* Bounds of the model. *)
MaxNodes == 3
TicksPerSec == 2
MaxRemovals == 1

(* The deepest call stack the code can build: the root and a chain of directories. *)
MaxStack == MaxNodes + 1

VARIABLES
    fs,         \* the entries below the root: node -> [parent, kind, target]
    atimeBase,  \* the access time of node n is atimeBase + n - 1 ticks from the epoch
    fault,      \* the one place where the file system refuses a call
    gone,       \* nodes another process has removed
    rmlog,      \* history: the removals, each with the position of the run at that time
    call,       \* the public function called and its argument(s)
    pc,         \* "start", "walk", "report", "query", "done"
    stack,      \* the frames of get_directory_entries, the innermost last
    opened,     \* history: the paths given to read_dir, in order
    walk,       \* the value get_directory_entries returned to its caller
    idx,        \* get_access_times: the position in `entries`
    out,        \* the lines printed on standard output
    ret         \* the value the called function returned (or the abort)

vars == <<fs, atimeBase, fault, gone, rmlog, call, pc, stack, opened, walk, idx, out, ret>>

Root == 0
Missing == 0 - 1
Kinds == {"file", "dir", "link"}
AtimeBases == {0 - 1, 0, 1}

(* ------------------------------ values ------------------------------- *)

Pending == [tag |-> "none", val |-> <<>>]
Ok(v) == [tag |-> "Ok", val |-> v]
IoErr(kind, path) == [tag |-> "IoErr", val |-> <<kind, path>>]
NoAtimeErr == [tag |-> "Err", val |-> <<"Could not get access time for file">>]
Panic == [tag |-> "Panic", val |-> <<"Invalid access time">>]

Last(s) == s[Len(s)]
Range(s) == {s[i] : i \in DOMAIN s}

(* --------------------------- the file system -------------------------- *)

NodeRec == [parent : 0..(MaxNodes - 1), kind : Kinds, target : {0, 1}]

ValidFs(f) ==
    \A i \in DOMAIN f :
        /\ f[i].parent < i
        /\ f[i].parent # Root => f[f[i].parent].kind = "dir"
        /\ f[i].kind # "link" => f[i].target = 0

FsChoices == UNION {{f \in [1..n -> NodeRec] : ValidFs(f)} : n \in 0..MaxNodes}

NoFault == [node |-> Root, op |-> "none"]

FaultOps(k) ==
    CASE k = "dir" -> {"iter", "type", "open"}
      [] k = "file" -> {"iter", "type", "meta", "noatime"}
      [] OTHER -> {"iter", "type"}

FaultChoices(f) ==
    {NoFault}
    \cup {[node |-> Root, op |-> o] : o \in {"open", "missing"}}
    \cup UNION {{[node |-> n, op |-> o] : o \in FaultOps(f[n].kind)} : n \in DOMAIN f}

Faulty(n, o) == fault.node = n /\ fault.op = o

Exists(n) == n = Root \/ (n \in DOMAIN fs /\ n \notin gone)

RECURSIVE NodePath(_)
NodePath(n) == IF n = Root THEN <<>> ELSE Append(NodePath(fs[n].parent), n)

(* What a path names once symbolic links are followed; Missing when it names nothing. *)
RECURSIVE Follow(_, _)
Follow(n, hops) ==
    IF n = Root THEN (IF Faulty(Root, "missing") THEN Missing ELSE Root)
    ELSE IF ~Exists(n) THEN Missing
    ELSE IF fs[n].kind # "link" THEN n
    ELSE IF hops = 0 THEN Missing
    ELSE Follow(fs[n].target, hops - 1)

Resolve(path) == IF path = <<>> THEN Follow(Root, MaxNodes) ELSE Follow(Last(path), MaxNodes)

KindOf(n) == IF n = Root THEN "dir" ELSE fs[n].kind

Children(d) == {c \in DOMAIN fs : fs[c].parent = d /\ c \notin gone}

RECURSIVE Ascending(_)
Ascending(S) ==
    IF S = {} THEN <<>>
    ELSE LET m == CHOOSE x \in S : \A y \in S : x <= y
         IN <<m>> \o Ascending(S \ {m})

AtimeOf(n) == atimeBase + n - 1

(* ------------------------- the system calls --------------------------- *)

(* fs::read_dir(directory) *)
ReadDir(path) ==
    LET d == Resolve(path)
    IN IF d = Missing THEN IoErr("NotFound", path)
       ELSE IF KindOf(d) # "dir" THEN IoErr("NotADirectory", path)
       ELSE IF Faulty(d, "open") THEN IoErr("PermissionDenied", path)
       ELSE Ok(Ascending(Children(d)))

(* the next item of the listing: `let entry = entry?` *)
NextItem(dir, e) ==
    IF Faulty(e, "iter") THEN IoErr("Other", Append(dir, e)) ELSE Ok(<<e>>)

(* entry.file_type(): the type of the entry itself, links not followed *)
FileType(dir, e) ==
    IF Faulty(e, "type") THEN IoErr("PermissionDenied", Append(dir, e)) ELSE Ok(<<fs[e].kind>>)

(* A faulty variant of EntryIsDir: the type of what the entry names, links
   followed (entry.path().is_dir()). *)
EntryIsDirFollowingLinks(e) ==
    /\ Follow(e, MaxNodes) # Missing
    /\ KindOf(Follow(e, MaxNodes)) = "dir"

(* entry.file_type()?.is_dir() *)
EntryIsDir(e) == fs[e].kind = "dir"

(* fs::metadata(path): links followed *)
Metadata(path) ==
    LET n == Resolve(path)
    IN IF n = Missing THEN IoErr("NotFound", path)
       ELSE IF Faulty(n, "meta") THEN IoErr("PermissionDenied", path)
       ELSE Ok(<<n>>)

(* A faulty variant of IsFile: anything that exists passes (entry.exists()). *)
IsFileExists(path) == Metadata(path).tag = "Ok"

(* A faulty variant of IsFile: the type seen when the entry was listed is
   trusted, the path is not looked at again. *)
IsFileStale(path) == path # <<>> /\ fs[Last(path)].kind = "file"

(* Path::is_file(): metadata obtained and a regular file *)
IsFile(path) ==
    /\ Metadata(path).tag = "Ok"
    /\ KindOf(Metadata(path).val[1]) = "file"

(* A faulty variant of AsSecs: rounds to the next second. *)
AsSecsRoundedUp(ticks) == (ticks + TicksPerSec - 1) \div TicksPerSec

(* Duration::as_secs of the time since the epoch *)
AsSecs(ticks) == ticks \div TicksPerSec

get_access_time(path) ==
    LET m == Metadata(path)
    IN IF m.tag # "Ok" THEN m
       ELSE IF Faulty(m.val[1], "noatime") THEN NoAtimeErr
       ELSE IF AtimeOf(m.val[1]) < 0 THEN Panic
       ELSE Ok(<<AsSecs(AtimeOf(m.val[1]))>>)

(* ------------------------------- Init --------------------------------- *)

Init ==
    /\ fs \in FsChoices
    /\ atimeBase \in AtimeBases
    /\ fault \in FaultChoices(fs)
    /\ gone = {}
    /\ rmlog = <<>>
    /\ call = [fn |-> "none", path |-> <<>>, recursive |-> FALSE]
    /\ pc = "start"
    /\ stack = <<>>
    /\ opened = <<>>
    /\ walk = Pending
    /\ idx = 0
    /\ out = <<>>
    /\ ret = Pending

(* ------------------------ get_directory_entries ----------------------- *)

(* A faulty variant of Frame: the list starts with the directory itself. *)
FrameWithSelf(path, listing) == [path |-> path, todo |-> listing, entries |-> <<path>>]

(* let mut entries = Vec::new(), and the listing read_dir returned *)
Frame(path, listing) == [path |-> path, todo |-> listing, entries |-> <<>>]

Top == stack[Len(stack)]

(* A faulty variant of Abort: the error is dropped and an empty list returned. *)
AbortAsEmpty(err) ==
    /\ stack' = <<>>
    /\ walk' = Ok(<<>>)
    /\ ret' = Ok(<<>>)
    /\ pc' = "done"

(* An error leaves every frame at once (the `?` of each level) and then
   get_access_times (its own `?`). *)
Abort(err) ==
    /\ stack' = <<>>
    /\ walk' = err
    /\ ret' = err
    /\ pc' = "done"

(* main: get_access_times(directory, recursive), up to the root's read_dir *)
Start(rec) ==
    /\ pc = "start"
    /\ call' = [fn |-> "get_access_times", path |-> <<>>, recursive |-> rec]
    /\ opened' = Append(opened, <<>>)
    /\ LET r == ReadDir(<<>>)
       IN IF r.tag = "Ok"
          THEN /\ stack' = <<Frame(<<>>, r.val)>>
               /\ pc' = "walk"
               /\ UNCHANGED <<walk, ret>>
          ELSE Abort(r)
    /\ UNCHANGED <<fs, atimeBase, fault, gone, rmlog, idx, out>>

(* the listing's item or its type cannot be had *)
EntryError ==
    /\ pc = "walk"
    /\ Top.todo # <<>>
    /\ LET e == Head(Top.todo)
           i == NextItem(Top.path, e)
           t == FileType(Top.path, e)
       IN /\ i.tag # "Ok" \/ t.tag # "Ok"
          /\ Abort(IF i.tag # "Ok" THEN i ELSE t)
    /\ UNCHANGED <<fs, atimeBase, fault, gone, rmlog, call, opened, idx, out>>

EntryReady ==
    /\ pc = "walk"
    /\ Top.todo # <<>>
    /\ NextItem(Top.path, Head(Top.todo)).tag = "Ok"
    /\ FileType(Top.path, Head(Top.todo)).tag = "Ok"

(* a directory, recursive: the recursive call, up to its read_dir *)
Descend ==
    /\ EntryReady
    /\ EntryIsDir(Head(Top.todo))
    /\ call.recursive
    /\ Len(stack) < MaxStack
    /\ LET p == Append(Top.path, Head(Top.todo))
           r == ReadDir(p)
       IN /\ opened' = Append(opened, p)
          /\ IF r.tag = "Ok"
             THEN /\ stack' = Append(stack, Frame(p, r.val))
                  /\ UNCHANGED <<walk, ret, pc>>
             ELSE Abort(r)
    /\ UNCHANGED <<fs, atimeBase, fault, gone, rmlog, call, idx, out>>

(* a directory, not recursive: continue *)
SkipDir ==
    /\ EntryReady
    /\ EntryIsDir(Head(Top.todo))
    /\ ~call.recursive
    /\ stack' = [stack EXCEPT ![Len(stack)].todo = Tail(@)]
    /\ UNCHANGED <<fs, atimeBase, fault, gone, rmlog, call, pc, opened, walk, idx, out, ret>>

(* not a directory: entries.push(entry.path()) *)
PushEntry ==
    /\ EntryReady
    /\ ~EntryIsDir(Head(Top.todo))
    /\ stack' = [stack EXCEPT ![Len(stack)] =
                    [@ EXCEPT !.todo = Tail(@),
                              !.entries = Append(@, Append(Top.path, Head(Top.todo)))]]
    /\ UNCHANGED <<fs, atimeBase, fault, gone, rmlog, call, pc, opened, walk, idx, out, ret>>

(* A faulty variant of AfterReturn: what the recursive call found is not kept. *)
AfterReturnDropsFound(entries, found, path) == Append(entries, path)

(* What the caller's list holds once the recursive call on entry e has returned
   `found`: entries.extend(found), then entries.push(entry.path()). *)
AfterReturn(entries, found, path) == Append(entries \o found, path)

(* Ok(entries): to the caller's frame, or to get_access_times *)
ReturnFrame ==
    /\ pc = "walk"
    /\ Top.todo = <<>>
    /\ IF Len(stack) = 1
       THEN /\ walk' = Ok(Top.entries)
            /\ stack' = <<>>
            /\ pc' = "report"
            /\ idx' = 1
       ELSE /\ LET c == stack[Len(stack) - 1]
               IN stack' = Append(SubSeq(stack, 1, Len(stack) - 2),
                                  [c EXCEPT !.todo = Tail(@),
                                            !.entries = AfterReturn(@, Top.entries, Top.path)])
            /\ UNCHANGED <<walk, pc, idx>>
    /\ UNCHANGED <<fs, atimeBase, fault, gone, rmlog, call, opened, out, ret>>

(* --------------------------- get_access_times ------------------------- *)

Line(path, secs) == [path |-> path, time |-> secs]

(* if entry.is_file() *)
FileCheck ==
    /\ pc = "report"
    /\ idx <= Len(walk.val)
    /\ IF IsFile(walk.val[idx])
       THEN pc' = "query" /\ idx' = idx
       ELSE pc' = "report" /\ idx' = idx + 1
    /\ UNCHANGED <<fs, atimeBase, fault, gone, rmlog, call, stack, opened, walk, out, ret>>

(* get_access_time(&entry)?, println!; DateTime::from_timestamp(secs, 0) is
   Some for every time of the model, so its unwrap() does not abort *)
QueryAtime ==
    /\ pc = "query"
    /\ LET r == get_access_time(walk.val[idx])
       IN IF r.tag = "Ok"
          THEN /\ out' = Append(out, Line(walk.val[idx], r.val[1]))
               /\ idx' = idx + 1
               /\ pc' = "report"
               /\ ret' = ret
          ELSE /\ ret' = r
               /\ pc' = "done"
               /\ UNCHANGED <<out, idx>>
    /\ UNCHANGED <<fs, atimeBase, fault, gone, rmlog, call, stack, opened, walk>>

(* Ok(()) *)
Finish ==
    /\ pc = "report"
    /\ idx > Len(walk.val)
    /\ ret' = Ok(<<>>)
    /\ pc' = "done"
    /\ UNCHANGED <<fs, atimeBase, fault, gone, rmlog, call, stack, opened, walk, idx, out>>

(* ---------------------- get_access_time, called alone ------------------ *)

ArgPaths == {NodePath(n) : n \in DOMAIN fs} \cup {<<MaxNodes + 1>>}

CallGetAccessTime(p) ==
    /\ pc = "start"
    /\ call' = [fn |-> "get_access_time", path |-> p, recursive |-> FALSE]
    /\ ret' = get_access_time(p)
    /\ pc' = "done"
    /\ UNCHANGED <<fs, atimeBase, fault, gone, rmlog, stack, opened, walk, idx, out>>

(* ------------------------- another process ---------------------------- *)

(* unlink or rmdir of an entry, while the run is under way *)
Remove(n) ==
    /\ pc \in {"walk", "report", "query"}
    /\ Len(rmlog) < MaxRemovals
    /\ n \in DOMAIN fs
    /\ n \notin gone
    /\ Children(n) = {}
    /\ gone' = gone \cup {n}
    /\ rmlog' = Append(rmlog, [node |-> n, pc |-> pc, idx |-> idx])
    /\ UNCHANGED <<fs, atimeBase, fault, call, pc, stack, opened, walk, idx, out, ret>>

(* --------------------------- specifications --------------------------- *)

Run ==
    \/ \E rec \in BOOLEAN : Start(rec)
    \/ EntryError
    \/ Descend
    \/ SkipDir
    \/ PushEntry
    \/ ReturnFrame
    \/ FileCheck
    \/ QueryAtime
    \/ Finish

Next ==
    \/ Run
    \/ \E p \in ArgPaths : CallGetAccessTime(p)

NextRace ==
    \/ Run
    \/ \E n \in DOMAIN fs : Remove(n)

(* The file system is left alone during the call. *)
Spec == Init /\ [][Next]_vars

(* The runs whose access times start at the epoch. *)
InitEpoch == Init /\ atimeBase = 0

(* get_access_times on a file system left alone; the code is one thread that
   runs on until it returns. *)
FairSpec == InitEpoch /\ [][Run]_vars /\ WF_vars(Run)

(* Another process removes entries during the call. *)
SpecRace == InitEpoch /\ [][NextRace]_vars

(* ====================== the claims, and their cases ==================== *)

Files == {n \in DOMAIN fs : fs[n].kind = "file"}
Dirs == {n \in DOMAIN fs : fs[n].kind = "dir"}
Links == {n \in DOMAIN fs : fs[n].kind = "link"}
TopLevel == {n \in DOMAIN fs : fs[n].parent = Root}
PathsOf(S) == {NodePath(n) : n \in S}
Depth(n) == Len(NodePath(n))

(* get_directory_entries has returned, with the paths or with an error *)
WalkDone == walk.tag # "none"
WalkOk == walk.tag = "Ok"

(* C1 (as claimed): without recursion the result is, as a set, exactly the
   regular files that are immediate entries of the directory. *)
C1_NonRecursiveExactlyTopFiles ==
    (WalkOk /\ ~call.recursive) => Range(walk.val) = PathsOf(TopLevel \cap Files)

(* What the code returns without recursion: every immediate entry that is not a
   directory (regular files and symbolic links alike), once, in listing order. *)
C1_NonRecursiveNonDirectories ==
    (WalkOk /\ ~call.recursive) =>
        walk.val = [i \in 1..Cardinality(TopLevel \ Dirs) |->
                        NodePath(Ascending(TopLevel \ Dirs)[i])]

C1_Case ==
    /\ WalkOk
    /\ ~call.recursive
    /\ TopLevel \cap Links # {}
    /\ TopLevel \cap Files # {}
    /\ Dirs # {}

(* C2 (as claimed): with recursion, on a tree whose directories can all be
   listed, the call succeeds and its result holds every regular file at any
   depth. *)
AllListable == fault.op \notin {"missing", "open", "iter"}

C2_RecursiveSupersetIfListable ==
    (WalkDone /\ call.recursive /\ AllListable) =>
        /\ WalkOk
        /\ PathsOf(Files) \subseteq Range(walk.val)

(* C2 (amended): with recursion, on a tree whose directories can all be listed
   and whose entries' types can all be determined, the call succeeds and its
   result holds every regular file at any depth. *)
C2_RecursiveSupersetIfListableAndTyped ==
    (WalkDone /\ call.recursive /\ AllListable /\ fault.op # "type") =>
        /\ WalkOk
        /\ PathsOf(Files) \subseteq Range(walk.val)

C2_Case ==
    /\ WalkOk
    /\ call.recursive
    /\ \E n \in Files : Depth(n) >= 2 /\ NodePath(n) \in Range(walk.val)
    /\ \E n \in Files : Depth(n) = 1

(* C3 (as claimed): for both values of the flag, the result never holds a path
   whose entry type, when the traversal observed it, was directory. *)
ObservedAsDir(path) == path # <<>> /\ FileType(SubSeq(path, 1, Len(path) - 1), Last(path)) = Ok(<<"dir">>)

C3_NoObservedDirectory ==
    WalkOk => \A i \in DOMAIN walk.val : ~ObservedAsDir(walk.val[i])

(* What holds of the code: without recursion no directory is in the result. *)
C3_NoDirectoryUnlessRecursive ==
    (WalkOk /\ ~call.recursive) => \A i \in DOMAIN walk.val : ~ObservedAsDir(walk.val[i])

(* C4: if listing the root, listing a descendant directory (with recursion) or
   an entry's type query fails, the call returns that same error and no path:
   what was accumulated, at this level or an enclosing one, is not delivered. *)
FaultError ==
    CASE fault.op = "missing" -> IoErr("NotFound", <<>>)
      [] fault.op = "open" -> IoErr("PermissionDenied", NodePath(fault.node))
      [] fault.op = "iter" -> IoErr("Other", NodePath(fault.node))
      [] fault.op = "type" -> IoErr("PermissionDenied", NodePath(fault.node))
      [] OTHER -> Pending

(* the failing call is one the traversal makes *)
FaultMet ==
    \/ fault.op = "missing"
    \/ fault.op = "open" /\ (fault.node = Root \/ call.recursive)
    \/ fault.op \in {"iter", "type"} /\ (fs[fault.node].parent = Root \/ call.recursive)

C4_ErrorAbortsWithoutPartialResult ==
    (call.fn = "get_access_times" /\ FaultMet /\ pc \notin {"start", "walk"}) =>
        /\ walk = FaultError
        /\ ret = FaultError
        /\ out = <<>>
        /\ stack = <<>>
        /\ pc = "done"

(* a failure one level down, after a file was accumulated at the enclosing level *)
C4_Case ==
    /\ walk.tag = "IoErr"
    /\ fault.node # Root
    /\ Depth(fault.node) = 2
    /\ \E n \in Files : n < fs[fault.node].parent /\ fs[n].parent = Root

(* C5: on an existing, readable directory without entries the call returns an
   empty sequence and no error, with and without recursion. *)
C5_EmptyDirectory ==
    (call.fn = "get_access_times" /\ fs = <<>> /\ fault = NoFault /\ pc \notin {"start", "walk"}) =>
        /\ walk = Ok(<<>>)
        /\ ret.tag \in {"none", "Ok"}

C5_Case == walk = Ok(<<>>) /\ fs = <<>> /\ pc = "done" /\ ret = Ok(<<>>)

(* C6: get_access_times prints a line only for the entries of the traversal that
   are files when it reports, one line each, in the traversal's order, and
   nothing for directories.  A failed traversal prints nothing.  When
   get_access_time returns an error for an entry, the run returns that error at
   once: no later entry is examined, and the lines printed are those of the
   files before the failing entry. *)
NamesRegularFile(path) ==
    /\ Resolve(path) # Missing
    /\ ~Faulty(Resolve(path), "meta")
    /\ KindOf(Resolve(path)) = "file"

RECURSIVE LinesOf(_)
LinesOf(paths) ==
    IF paths = <<>> THEN <<>>
    ELSE IF NamesRegularFile(Head(paths))
         THEN <<[path |-> Head(paths), time |-> AtimeOf(Resolve(Head(paths))) \div TicksPerSec]>>
                  \o LinesOf(Tail(paths))
         ELSE LinesOf(Tail(paths))

Examined == SubSeq(walk.val, 1, idx - 1)

C6_OutputIsTheFilesInOrder ==
    /\ ~WalkOk => out = <<>>
    /\ walk.tag = "IoErr" => (pc = "done" /\ ret = walk)
    /\ WalkOk =>
        /\ out = LinesOf(Examined)
        /\ (pc = "done" /\ ret.tag = "Ok") => (idx = Len(walk.val) + 1 /\ out = LinesOf(walk.val))
        /\ (pc = "done" /\ ret.tag # "Ok") =>
              /\ idx \in DOMAIN walk.val
              /\ NamesRegularFile(walk.val[idx])
              /\ ret.tag \in {"Err", "Panic"}
              /\ ret.tag = "Err" => Faulty(Resolve(walk.val[idx]), "noatime")

(* the run stopped at a file whose access time is not available, after one line
   was printed, with a directory of the result left unexamined *)
C6_Case ==
    /\ pc = "done"
    /\ ret = NoAtimeErr
    /\ Len(out) = 1
    /\ idx = 2
    /\ \E i \in (idx + 1)..Len(walk.val) : KindOf(Last(walk.val[i])) = "dir"

(* C7: get_access_time returns a timestamp only when the metadata can be had,
   the access time is available and not before the epoch, and then the whole
   seconds since the epoch.  Otherwise: the I/O error of the metadata query, or
   the error "Could not get access time for file", or, for a time before the
   epoch, the abort of the process. *)
C7_AccessTime ==
    (call.fn = "get_access_time" /\ pc = "done") =>
        LET n == Resolve(call.path)
            metaOk == n # Missing /\ ~Faulty(n, "meta")
            supported == ~Faulty(n, "noatime")
        IN /\ ret.tag = "Ok" <=> (metaOk /\ supported /\ AtimeOf(n) >= 0)
           /\ ret.tag = "Ok" =>
                 /\ ret.val[1] * TicksPerSec <= AtimeOf(n)
                 /\ AtimeOf(n) < (ret.val[1] + 1) * TicksPerSec
           /\ ~metaOk =>
                 ret = IoErr(IF n = Missing THEN "NotFound" ELSE "PermissionDenied", call.path)
           /\ (metaOk /\ ~supported) => ret = NoAtimeErr
           /\ (metaOk /\ supported /\ AtimeOf(n) < 0) => ret = Panic

(* a time with a part of a second, at least one second after the epoch *)
C7_Case ==
    /\ call.fn = "get_access_time"
    /\ pc = "done"
    /\ ret.tag = "Ok"
    /\ ret.val[1] >= 1
    /\ AtimeOf(Resolve(call.path)) > ret.val[1] * TicksPerSec

(* C8 (as claimed): with recursion, on a tree that can be listed throughout,
   the result is, as a multiset, every regular file once and every directory
   below the root once (never the root); a directory's path comes immediately
   after everything found inside it; the entries of one directory keep the
   order of its listing. *)
IndexOf(path) == CHOOSE i \in DOMAIN walk.val : walk.val[i] = path

Descendants(n) == {m \in DOMAIN fs : m # n /\ n \in Range(NodePath(m))}

ExactlyOnce(S) ==
    /\ Len(walk.val) = Cardinality(S)
    /\ Range(walk.val) = PathsOf(S)

PostOrder ==
    \A n \in Dirs :
        LET i == IndexOf(NodePath(n))
            k == Cardinality(Descendants(n))
        IN /\ i > k
           /\ {walk.val[j] : j \in (i - k)..(i - 1)} = PathsOf(Descendants(n))

ListingOrder ==
    \A a, b \in DOMAIN fs :
        (fs[a].parent = fs[b].parent /\ a < b) => IndexOf(NodePath(a)) < IndexOf(NodePath(b))

C8_FilesAndDirectoriesPostOrder ==
    (WalkOk /\ call.recursive) =>
        /\ ExactlyOnce(Files \cup Dirs)
        /\ PostOrder
        /\ ListingOrder

(* What holds of the code: the same of every entry below the root, the
   symbolic links included. *)
C8_AllEntriesPostOrder ==
    (WalkOk /\ call.recursive) =>
        /\ ExactlyOnce(DOMAIN fs)
        /\ <<>> \notin Range(walk.val)
        /\ PostOrder
        /\ ListingOrder

C8_Case ==
    /\ WalkOk
    /\ call.recursive
    /\ Links # {}
    /\ \E d \in Dirs : Cardinality(Descendants(d)) = 2

(* C9: with recursion the call goes down only into entries whose own type is
   directory; a symbolic link, also one to a directory or to an ancestor of
   itself, is appended and not gone into.  So on a file system that is left
   alone, symbolic-link cycles included, every directory is listed at most once
   and the call ends, with a result or an error. *)
C9_OnlyDirectoriesOpened ==
    call.recursive =>
        /\ \A i \in DOMAIN opened : opened[i] = <<>> \/ fs[Last(opened[i])].kind = "dir"
        /\ \A i, j \in DOMAIN opened : i # j => Resolve(opened[i]) # Resolve(opened[j])
        /\ WalkOk => PathsOf(Links) \subseteq Range(walk.val)

C9_LinksAreLeavesAndWalkEnds ==
    /\ []C9_OnlyDirectoriesOpened
    /\ (pc = "walk" /\ call.recursive) ~> (pc # "walk")

(* a link to the root inside a subdirectory: a cycle, had it been followed *)
C9_Case ==
    /\ WalkOk
    /\ call.recursive
    /\ \E n \in Links :
          /\ fs[n].target = Root
          /\ fs[n].parent # Root
          /\ NodePath(n) \in Range(walk.val)
          /\ Len(opened) = Cardinality(Dirs) + 1

(* C10: when another process removes entries during get_access_times, a path
   the traversal listed and that is removed before its is_file check gives no
   line and no error, the run goes on and can still succeed; a path removed
   after its is_file check and before its metadata query makes the run fail
   with an I/O error, and nothing else makes the report fail with one. *)
RemovedBeforeCheck(j) ==
    \E k \in DOMAIN rmlog :
        /\ rmlog[k].node = Last(walk.val[j])
        /\ \/ rmlog[k].pc = "walk"
           \/ rmlog[k].pc = "report" /\ rmlog[k].idx <= j
           \/ rmlog[k].pc = "query" /\ rmlog[k].idx < j

RemovedInGap(k) ==
    /\ rmlog[k].pc = "query"
    /\ rmlog[k].node = Last(walk.val[rmlog[k].idx])

C10_GapCase ==
    /\ pc = "done"
    /\ ret.tag = "IoErr"
    /\ WalkOk
    /\ Len(out) >= 1
====
